---- MODULE Spec2Model ----
(***************************************************************************)
(* Model of transformer/model_dual.py: the dual-encoder masked acoustic    *)
(* model (constructor and forward), the phonetic / speaker encoder         *)
(* constructors, and load_model.                                           *)
(*                                                                         *)
(* Tensors are abstracted: a code tensor is [T, width, expr] where expr is *)
(* the prefix-notation term that produced it; parameter tensors are value  *)
(* tags with a shape. Parameter names are sequences of name components     *)
(* (<<"layer","gamma">> is the Python string 'layer.gamma').               *)
(***************************************************************************)
EXTENDS Integers, Sequences, FiniteSets, TLC

\* ------------------------------------------------------------------ bounds
MaxDim == 2
MaxPreTrain == 2
SeqLen == 2
MaxVal == 1
MaxKeyLen == 2
MaxEntries == 2

VARIABLES config, model, fwd, ld

vars == <<config, model, fwd, ld>>

\* ------------------------------------------------------------ value spaces
CombineValues == {"concat", "add", "mul"}
PhoneTypes == {"l2", "gb", "gst", "linear", "none", "conv"}
SpeakerTypes == {"gst", "linear", "none", "l2"}
Paths == {"a.ckpt", "b.ckpt"}
Dims == 0..MaxDim
HiddenSizes == MaxDim..(MaxDim + 1)

\* A Python value that may sit in config.pre_train: a path string, or a list
\* of path strings.
PyStr(p) == [isList |-> FALSE, items |-> <<p>>]
PyList(ps) == [isList |-> TRUE, items |-> ps]

SeqsUpTo(S, n) == UNION {[1..k -> S] : k \in 0..n}

PreTrainLists == {[i \in DOMAIN ps |-> PyStr(ps[i])] : ps \in SeqsUpTo(Paths, MaxPreTrain)}

\* ------------------------------------------------------------- parameters
\* The parameters of a sub-encoder's Transformer, each of shape 1.
TransformerParams == {<<"layer", "weight">>, <<"layer", "bias">>}

RawWeights == [p \in TransformerParams |-> [shape |-> 1, val |-> "raw"]]

NoWeights == [p \in {} |-> [shape |-> 1, val |-> "raw"]]

\* init_Transformer_weights over the parameters of a module tree: default
\* initialization of the parameters that are still uninitialized.
init_Transformer_weights(w) ==
    [p \in DOMAIN w |-> IF w[p].val = "raw" THEN [w[p] EXCEPT !.val = "init"] ELSE w[p]]

\* ------------------------------------------------------------- load_model
\* A state dict is a Python dict in insertion order: a sequence of entries
\* [key, shape, val] with pairwise different keys.
Contains(key, tok) == \E i \in DOMAIN key : key[i] = tok

Replace(key, old, new) == [i \in DOMAIN key |-> IF key[i] = old THEN new ELSE key[i]]

\* The new_key of one key (<<>> is None): 'beta' is tested last and wins, and
\* both replacements start from the original key.
NewKey(key) ==
    LET g == IF Contains(key, "gamma") THEN Replace(key, "gamma", "weight") ELSE <<>>
    IN  IF Contains(key, "beta") THEN Replace(key, "beta", "bias") ELSE g

DictHas(sd, k) == \E i \in DOMAIN sd : sd[i].key = k

DictIndex(sd, k) == CHOOSE i \in DOMAIN sd : sd[i].key = k

DictGet(sd, k) == sd[DictIndex(sd, k)]

DictPop(sd, k) ==
    LET j == DictIndex(sd, k)
    IN  SubSeq(sd, 1, j - 1) \o SubSeq(sd, j + 1, Len(sd))

DictSet(sd, k, e) ==
    IF DictHas(sd, k)
    THEN [sd EXCEPT ![DictIndex(sd, k)] = [e EXCEPT !.key = k]]
    ELSE Append(sd, [e EXCEPT !.key = k])

IsLegacy(e) == NewKey(e.key) # <<>>

\* old_keys, in the dict's order.
OldKeys(sd) == LET olds == SelectSeq(sd, IsLegacy) IN [i \in DOMAIN olds |-> olds[i].key]

\* for old_key, new_key in zip(old_keys, new_keys):
\*     state_dict[new_key] = state_dict.pop(old_key)
RECURSIVE RenameKeys(_, _)
RenameKeys(sd, olds) ==
    IF olds = <<>> THEN sd
    ELSE LET k == Head(olds)
             e == DictGet(sd, k)
         IN  RenameKeys(DictSet(DictPop(sd, k), NewKey(k), e), Tail(olds))

\* The recursive load(): module._load_from_state_dict on every module of the
\* tree. A parameter whose name is in the dict is copied in place when the
\* shapes agree and reported in error_msgs when they differ; nothing is undone.
LoadFromStateDict(params, sd) ==
    LET SameShape(p) == DictGet(sd, p).shape = params[p].shape
    IN  [params |-> [p \in DOMAIN params |->
                        IF DictHas(sd, p) /\ SameShape(p)
                        THEN [params[p] EXCEPT !.val = DictGet(sd, p).val]
                        ELSE params[p]],
         missing_keys |-> {p \in DOMAIN params : ~DictHas(sd, p)},
         unexpected_keys |-> {sd[i].key : i \in DOMAIN sd} \ DOMAIN params,
         error_msgs |-> {p \in DOMAIN params : DictHas(sd, p) /\ ~SameShape(p)}]

\* load_model(transformer_model, state_dict): the status, the module's
\* parameters afterwards (they are written in place, also when it raises) and
\* the caller's dict afterwards (renamed before it is copied).
load_model(params, state_dict) ==
    LET renamed == RenameKeys(state_dict, OldKeys(state_dict))
        r == LoadFromStateDict(params, renamed)
    IN  [status |-> IF r.error_msgs = {} THEN "ok" ELSE "RuntimeError",
         params |-> r.params,
         state_dict |-> renamed,
         missing_keys |-> r.missing_keys,
         unexpected_keys |-> r.unexpected_keys]

\* The files torch.load can read: each holds a state dict under 'Transformer'.
\* a.ckpt uses the legacy names, b.ckpt the current ones and lacks the bias.
CheckpointFile(path) ==
    IF path = "a.ckpt"
    THEN << [key |-> <<"layer", "gamma">>, shape |-> 1, val |-> "a.gamma"],
            [key |-> <<"layer", "beta">>, shape |-> 1, val |-> "a.beta"] >>
    ELSE << [key |-> <<"layer", "weight">>, shape |-> 1, val |-> "b.weight"] >>

\* torch.load(f): f must be a path; handed a list it raises.
torch_load(f) ==
    IF f.isList
    THEN [ok |-> FALSE, Transformer |-> <<>>]
    ELSE [ok |-> TRUE, Transformer |-> CheckpointFile(f.items[1])]

\* ---------------------------------------------------------------- encoders
\* The recognizer layers (model_quantize) project to `dim` and expose it.
RecognizerOutDim(hidden_size, dim) == dim

AbsentEncoder ==
    [status |-> "absent", with_recognizer |-> FALSE, out_dim |-> 0, weights |-> NoWeights]

BrokenEncoder ==
    [status |-> "NotImplementedError", with_recognizer |-> FALSE, out_dim |-> 0,
     weights |-> NoWeights]

BuiltEncoder(cfg, with_recognizer, dim) ==
    [status |-> "ok", with_recognizer |-> with_recognizer,
     out_dim |-> IF with_recognizer THEN RecognizerOutDim(cfg.hidden_size, dim)
                 ELSE cfg.hidden_size,
     weights |-> init_Transformer_weights(RawWeights)]

TransformerPhoneticEncoder(cfg, with_recognizer) ==
    IF cfg.phone_type \in {"l2", "gb", "gst", "linear"} /\ with_recognizer
    THEN BuiltEncoder(cfg, TRUE, cfg.phone_dim)
    ELSE IF cfg.phone_type = "none" /\ with_recognizer
    THEN BuiltEncoder(cfg, FALSE, cfg.phone_dim)
    ELSE IF with_recognizer
    THEN BrokenEncoder
    ELSE BuiltEncoder(cfg, FALSE, cfg.phone_dim)

TransformerSpeakerEncoder(cfg, with_recognizer) ==
    IF cfg.speaker_type \in {"gst", "linear"} /\ with_recognizer
    THEN BuiltEncoder(cfg, TRUE, cfg.speaker_dim)
    ELSE IF cfg.phone_type = "none" /\ with_recognizer
    THEN BuiltEncoder(cfg, FALSE, cfg.speaker_dim)
    ELSE IF with_recognizer
    THEN BrokenEncoder
    ELSE BuiltEncoder(cfg, FALSE, cfg.speaker_dim)

\* ------------------------------------------------------------ constructor
\* The object under construction. code_dim, decoder_input_dim and
\* head_input_dim are 0 until assigned; torch_loads lists what was handed to
\* torch.load; log lists the weight-writing steps in the order they ran.
NewModel(cfg, output_attentions) ==
    [status |-> "building", error |-> "none",
     output_attentions |-> output_attentions,
     decoder |-> cfg.decoder, use_pe |-> cfg.intermediate_pe,
     combine |-> cfg.combine, phone_dim |-> cfg.phone_dim,
     speaker_dim |-> cfg.speaker_dim, average_pooling |-> cfg.average_pooling,
     hidden_size |-> cfg.hidden_size,
     PhoneticTransformer |-> AbsentEncoder, SpeakerTransformer |-> AbsentEncoder,
     code_dim |-> 0, has_SPE |-> FALSE, has_SpecTransformer |-> FALSE,
     decoder_input_dim |-> 0, head_input_dim |-> 0,
     phonetic_states |-> <<>>, speaker_states |-> <<>>,
     torch_loads |-> <<>>, log |-> <<>>]

Raise(m, err) == [m EXCEPT !.status = "failed", !.error = err]

Max(a, b) == IF a >= b THEN a ELSE b

\* build encoder
BuildEncoders(m, cfg) ==
    LET ph == IF m.phone_dim # 0 THEN TransformerPhoneticEncoder(cfg, TRUE) ELSE AbsentEncoder
        m1 == [m EXCEPT !.PhoneticTransformer = ph,
                        !.log = IF ph.status = "ok" THEN Append(@, "init PhoneticTransformer") ELSE @]
        sp == IF m.speaker_dim # 0 THEN TransformerSpeakerEncoder(cfg, TRUE) ELSE AbsentEncoder
        m2 == [m1 EXCEPT !.SpeakerTransformer = sp,
                         !.log = IF sp.status = "ok" THEN Append(@, "init SpeakerTransformer") ELSE @]
    IN  IF ph.status = "NotImplementedError" THEN Raise(m1, "NotImplementedError")
        ELSE IF sp.status = "NotImplementedError" THEN Raise(m2, "NotImplementedError")
        ELSE m2

\* CodeDim without the check that an encoder exists.
CodeDimZeroUnchecked(m, cfg) ==
    IF m.phone_dim = 0 \/ m.speaker_dim = 0
    THEN [m EXCEPT !.code_dim = Max(m.phone_dim, m.speaker_dim)]
    ELSE IF cfg.combine = "add"
    THEN IF m.PhoneticTransformer.out_dim = m.SpeakerTransformer.out_dim
         THEN [m EXCEPT !.code_dim = m.PhoneticTransformer.out_dim]
         ELSE Raise(m, "AssertionError")
    ELSE IF cfg.combine = "concat"
    THEN [m EXCEPT !.code_dim = m.PhoneticTransformer.out_dim + m.SpeakerTransformer.out_dim]
    ELSE Raise(m, "NotImplementedError")

\* CodeDim with 'concat' as the fallback of an unknown combine value.
CodeDimDefaultConcat(m, cfg) ==
    IF m.phone_dim = 0 /\ m.speaker_dim = 0
    THEN Raise(m, "ValueError")
    ELSE IF m.phone_dim = 0 \/ m.speaker_dim = 0
    THEN [m EXCEPT !.code_dim = Max(m.phone_dim, m.speaker_dim)]
    ELSE IF cfg.combine = "add"
    THEN IF m.PhoneticTransformer.out_dim = m.SpeakerTransformer.out_dim
         THEN [m EXCEPT !.code_dim = m.PhoneticTransformer.out_dim]
         ELSE Raise(m, "AssertionError")
    ELSE [m EXCEPT !.code_dim = m.PhoneticTransformer.out_dim + m.SpeakerTransformer.out_dim]

\* the dimension of the fused code
CodeDim(m, cfg) ==
    IF m.phone_dim = 0 /\ m.speaker_dim = 0
    THEN Raise(m, "ValueError")
    ELSE IF m.phone_dim = 0 \/ m.speaker_dim = 0
    THEN [m EXCEPT !.code_dim = Max(m.phone_dim, m.speaker_dim)]
    ELSE IF cfg.combine = "concat"
    THEN [m EXCEPT !.code_dim = m.PhoneticTransformer.out_dim + m.SpeakerTransformer.out_dim]
    ELSE IF cfg.combine = "add"
    THEN IF m.PhoneticTransformer.out_dim = m.SpeakerTransformer.out_dim
         THEN [m EXCEPT !.code_dim = m.PhoneticTransformer.out_dim]
         ELSE Raise(m, "AssertionError")
    ELSE Raise(m, "NotImplementedError")

\* build decoder, and the prediction head
BuildDecoder(m) ==
    [m EXCEPT !.has_SPE = m.decoder /\ m.use_pe,
              !.has_SpecTransformer = m.decoder,
              !.decoder_input_dim = IF m.decoder THEN m.code_dim ELSE 0,
              !.head_input_dim = IF m.decoder THEN m.hidden_size ELSE m.code_dim]

\* config.pre_train after `if len(config.pre_train) == 1: config.pre_train = [config.pre_train]`
NormalizePreTrain(pre_train) ==
    IF Len(pre_train) = 1
    THEN << PyList([i \in DOMAIN pre_train |-> pre_train[i].items[1]]) >>
    ELSE pre_train

LoadEncoder(enc, r) == [enc EXCEPT !.weights = r.params]

\* weight handling, with config.pre_train already normalized
WeightHandling(m, pre_train) ==
    IF Len(pre_train) = 0 THEN m
    ELSE
    LET f1 == pre_train[1]
        f2 == pre_train[Len(pre_train)]
        all_states1 == torch_load(f1)
        all_states2 == torch_load(f2)
        r1 == load_model(m.PhoneticTransformer.weights, all_states1.Transformer)
        m1 == [m EXCEPT !.torch_loads = <<f1, f2>>,
                        !.PhoneticTransformer = LoadEncoder(@, r1),
                        !.phonetic_states = <<f1>>,
                        !.log = Append(@, "load PhoneticTransformer")]
        m2 == IF m.phone_dim # 0 THEN m1 ELSE [m EXCEPT !.torch_loads = <<f1, f2>>]
        r2 == load_model(m.SpeakerTransformer.weights, all_states2.Transformer)
        m3 == [m2 EXCEPT !.SpeakerTransformer = LoadEncoder(@, r2),
                         !.speaker_states = <<f2>>,
                         !.log = Append(@, "load SpeakerTransformer")]
    IN  IF ~all_states1.ok THEN Raise([m EXCEPT !.torch_loads = <<f1>>], "TorchLoadError")
        ELSE IF ~all_states2.ok THEN Raise([m EXCEPT !.torch_loads = <<f1, f2>>], "TorchLoadError")
        ELSE IF m.phone_dim # 0 /\ r1.status # "ok" THEN Raise(m1, "RuntimeError")
        ELSE IF m.speaker_dim # 0 /\ r2.status # "ok" THEN Raise(m3, "RuntimeError")
        ELSE IF m.speaker_dim # 0 THEN m3
        ELSE m2

\* self.apply(self.init_Transformer_weights): every module of the model.
ApplyInit(m) ==
    [m EXCEPT !.PhoneticTransformer.weights = init_Transformer_weights(@),
              !.SpeakerTransformer.weights = init_Transformer_weights(@),
              !.log = Append(@, "init model"),
              !.status = "built"]

Then(m, next) == IF m.status = "failed" THEN m ELSE next

\* DualTransformerForMaskedAcousticModel.__init__
DualTransformerForMaskedAcousticModel(cfg, output_attentions) ==
    LET m0 == NewModel(cfg, output_attentions)
        m1 == IF cfg.dual_transformer THEN BuildEncoders(m0, cfg) ELSE Raise(m0, "AssertionError")
        m2 == Then(m1, CodeDim(m1, cfg))
        m3 == Then(m2, BuildDecoder(m2))
        m4 == Then(m3, WeightHandling(m3, NormalizePreTrain(cfg.pre_train)))
    IN  Then(m4, ApplyInit(m4))

\* config after the constructor: pre_train is rewritten when the weight
\* handling is reached.
ConfigAfter(cfg, m) ==
    IF m.status = "built" \/ m.error \in {"TorchLoadError", "RuntimeError"}
    THEN [cfg EXCEPT !.pre_train = NormalizePreTrain(@)]
    ELSE cfg

\* ---------------------------------------------------------------- forward
\* None, where a tensor is expected.
NoneTensor == [T |-> 0, width |-> 0, expr |-> <<>>]

\* An encoder's forward: the code it returns for an input of T frames. The
\* speaker encoder averages over time first when average_pooling is set.
EncoderForward(enc, name, T, pooled) ==
    [T |-> IF pooled THEN 1 ELSE T, width |-> enc.out_dim, expr |-> <<name>>]

\* speaker_code.repeat(1, n, 1)
Repeat(t, n) == [T |-> t.T * n, width |-> t.width, expr |-> <<"repeat">> \o t.expr]

\* combine code
CombineCode(m, phonetic_code, speaker_code) ==
    IF m.speaker_dim = 0
    THEN [error |-> "none", code |-> phonetic_code]
    ELSE IF m.phone_dim = 0
    THEN [error |-> "none", code |-> speaker_code]
    ELSE IF m.combine = "concat"
    THEN [error |-> "none",
          code |-> [T |-> phonetic_code.T,
                    width |-> phonetic_code.width + speaker_code.width,
                    expr |-> <<"cat">> \o phonetic_code.expr \o speaker_code.expr]]
    ELSE IF m.combine = "add"
    THEN [error |-> "none",
          code |-> [T |-> phonetic_code.T, width |-> phonetic_code.width,
                    expr |-> <<"add">> \o phonetic_code.expr \o speaker_code.expr]]
    ELSE [error |-> "NotImplementedError", code |-> NoneTensor]

\* decoder forward
DecoderForward(m, code) ==
    IF m.decoder
    THEN [T |-> code.T, width |-> m.hidden_size, expr |-> <<"SpecTransformer">> \o code.expr]
    ELSE code

RECURSIVE masked_select(_, _)
masked_select(t, mask) ==
    IF t = <<>> THEN <<>>
    ELSE (IF Head(mask) THEN <<Head(t)>> ELSE <<>>) \o masked_select(Tail(t), Tail(mask))

Abs(x) == IF x < 0 THEN -x ELSE x

RECURSIVE SumAbsDiff(_, _)
SumAbsDiff(x, y) ==
    IF x = <<>> THEN 0 ELSE Abs(Head(x) - Head(y)) + SumAbsDiff(Tail(x), Tail(y))

\* nn.L1Loss(): the mean of |x - y|, kept as the fraction num / den.
L1Loss(x, y) == [num |-> SumAbsDiff(x, y), den |-> Len(x)]

\* mask_label.sum()
MaskSum(mask_label) == Len(masked_select(mask_label, mask_label))

NoLoss == [num |-> 0, den |-> 0]

\* compute objective; None is <<>>.
Objective(m, pred_spec, spec_label, mask_label) ==
    IF spec_label # <<>> /\ mask_label # <<>>
    THEN IF MaskSum(mask_label) > 0
         THEN [error |-> "none", returns |-> "loss, pred_spec",
               loss |-> L1Loss(masked_select(pred_spec, mask_label),
                               masked_select(spec_label, mask_label))]
         ELSE [error |-> "AssertionError", returns |-> "nothing", loss |-> NoLoss]
    ELSE IF m.output_attentions
    THEN [error |-> "none", returns |-> "all_attentions, pred_spec", loss |-> NoLoss]
    ELSE [error |-> "none", returns |-> "pred_spec, pred_state", loss |-> NoLoss]

\* DualTransformerForMaskedAcousticModel.forward on inputs of T frames;
\* pred_spec is what the prediction head returns for them.
ForwardResult(m, T, spec_label, mask_label, pred_spec) ==
    LET phonetic_code == IF m.phone_dim # 0
                         THEN EncoderForward(m.PhoneticTransformer, "phonetic", T, FALSE)
                         ELSE NoneTensor
        speaker_out == IF m.speaker_dim # 0
                       THEN EncoderForward(m.SpeakerTransformer, "speaker", T, m.average_pooling)
                       ELSE NoneTensor
        replicate == m.speaker_dim # 0 /\ m.average_pooling
        speaker_code == IF replicate THEN Repeat(speaker_out, phonetic_code.T) ELSE speaker_out
        fused == CombineCode(m, phonetic_code, speaker_code)
        sequence_output == DecoderForward(m, fused.code)
        obj == Objective(m, pred_spec, spec_label, mask_label)
        call == [status |-> "failed", error |-> "none", T |-> T,
                 spec_label |-> spec_label, mask_label |-> mask_label,
                 pred_spec |-> pred_spec, phonetic_code |-> phonetic_code,
                 speaker_out |-> speaker_out, code |-> NoneTensor,
                 sequence_output |-> NoneTensor,
                 returns |-> "nothing", loss |-> NoLoss]
    IN  IF replicate /\ phonetic_code = NoneTensor
        THEN [call EXCEPT !.error = "AttributeError"]
        ELSE IF fused.error # "none"
        THEN [call EXCEPT !.error = fused.error]
        ELSE IF obj.error # "none"
        THEN [call EXCEPT !.error = obj.error, !.code = fused.code,
                          !.sequence_output = sequence_output]
        ELSE [call EXCEPT !.status = "returned", !.code = fused.code,
                          !.sequence_output = sequence_output,
                          !.returns = obj.returns, !.loss = obj.loss]

\* ------------------------------------------------------------------ state
NoForward == [status |-> "none"]

NoLoad == [status |-> "idle"]

Configs ==
    [dual_transformer : BOOLEAN, decoder : BOOLEAN, intermediate_pe : BOOLEAN,
     combine : CombineValues, phone_type : PhoneTypes, phone_dim : Dims,
     speaker_type : SpeakerTypes, speaker_dim : Dims, hidden_size : HiddenSizes,
     average_pooling : BOOLEAN, pre_train : PreTrainLists]

Init ==
    /\ config \in Configs
    /\ model = NewModel(config, FALSE)
    /\ fwd = NoForward
    /\ ld = NoLoad

Construct ==
    /\ model.status = "building"
    /\ \E output_attentions \in BOOLEAN :
         LET m == DualTransformerForMaskedAcousticModel(config, output_attentions)
         IN  /\ model' = m
             /\ config' = ConfigAfter(config, m)
    /\ UNCHANGED <<fwd, ld>>

Forward(T, spec_label, mask_label, pred_spec) ==
    /\ model.status = "built"
    /\ fwd' = ForwardResult(model, T, spec_label, mask_label, pred_spec)
    /\ UNCHANGED <<config, model, ld>>

Frames(T) == [1..T -> 0..MaxVal]

\* forward at inference: no labels.
Infer ==
    \E T \in 1..SeqLen : Forward(T, <<>>, <<>>, [i \in 1..T |-> 0])

\* forward with any combination of labels.
Train ==
    \E T \in 1..SeqLen :
      \E pred_spec \in Frames(T), spec_label \in {<<>>} \cup Frames(T),
         mask_label \in {<<>>} \cup [1..T -> BOOLEAN] :
        Forward(T, spec_label, mask_label, pred_spec)

Next == Construct \/ Infer

Spec == Init /\ [][Next]_vars

\* The objective is explored on the configurations that differ in what
\* forward does before it: which encoders exist, pooling, decoder, combine.
ObjectiveConfigs ==
    {c \in Configs : /\ c.dual_transformer /\ ~c.intermediate_pe
                     /\ c.combine \in {"concat", "add"}
                     /\ c.phone_type = "linear" /\ c.speaker_type = "linear"
                     /\ c.hidden_size = MaxDim + 1 /\ c.pre_train = <<>>}

InitObjective ==
    /\ config \in ObjectiveConfigs
    /\ model = NewModel(config, FALSE)
    /\ fwd = NoForward
    /\ ld = NoLoad

NextObjective == Construct \/ Train

SpecObjective == InitObjective /\ [][NextObjective]_vars

\* load_model on its own: a module tree and a checkpoint's state dict.
Tokens == {"layer", "gamma", "beta", "weight", "bias"}

Keys == UNION {[1..k -> Tokens] : k \in 1..MaxKeyLen}

ValueOf(i) == <<"v", i>>

\* The state dicts of n entries: pairwise different keys, shapes 1 or 2, and
\* a value of its own per entry.
StateDicts(n) ==
    {[i \in 1..n |-> [key |-> ks[i], shape |-> sh[i], val |-> ValueOf(i)]] :
        ks \in {f \in [1..n -> Keys] : \A i, j \in 1..n : f[i] = f[j] => i = j},
        sh \in [1..n -> 1..2]}

TargetNames == {<<"layer", "weight">>, <<"layer", "bias">>, <<"weight">>}

Targets ==
    {[p \in names |-> [shape |-> 1, val |-> <<"old", 0>>]] : names \in SUBSET TargetNames \ {{}}}

IdleConfig ==
    [dual_transformer |-> TRUE, decoder |-> FALSE, intermediate_pe |-> FALSE,
     combine |-> "concat", phone_type |-> "linear", phone_dim |-> MaxDim,
     speaker_type |-> "linear", speaker_dim |-> MaxDim, hidden_size |-> MaxDim,
     average_pooling |-> FALSE, pre_train |-> <<>>]

InitLoad ==
    /\ config = IdleConfig
    /\ model = NewModel(config, FALSE)
    /\ fwd = NoForward
    /\ \E n \in 0..MaxEntries :
         \E sd \in StateDicts(n), target \in Targets :
           ld = [status |-> "idle", target |-> target, state_dict |-> sd]

LoadModel ==
    /\ ld.status = "idle"
    /\ "target" \in DOMAIN ld
    /\ LET r == load_model(ld.target, ld.state_dict)
       IN  ld' = [status |-> r.status, target |-> ld.target,
                  state_dict |-> ld.state_dict, params |-> r.params,
                  renamed |-> r.state_dict, missing_keys |-> r.missing_keys,
                  unexpected_keys |-> r.unexpected_keys]
    /\ UNCHANGED <<config, model, fwd>>

NextLoad == LoadModel

SpecLoad == InitLoad /\ [][NextLoad]_vars

\* ------------------------------------------------------------- properties
Constructed == model.status # "building"

BothEncoders == model.phone_dim # 0 /\ model.speaker_dim # 0

KnownCombine == config.combine \in {"concat", "add"}

\* C1: a configuration with phone_dim = 0 and speaker_dim = 0 never yields a
\* model: the constructor ends in an error whatever the other fields are.
C1_NoEncoderFails ==
    (Constructed /\ config.phone_dim = 0 /\ config.speaker_dim = 0)
        => (model.status = "failed" /\ model.error \in {"ValueError", "AssertionError"})

\* C1 witness: the constructor ran on a zero/zero configuration that also
\* names checkpoints, and raised ValueError.
C1_Witness ==
    /\ model.status = "failed" /\ model.error = "ValueError"
    /\ config.phone_dim = 0 /\ config.speaker_dim = 0
    /\ config.pre_train # <<>> /\ config.combine = "mul"

\* C2 as stated: every configuration whose combine is neither 'concat' nor
\* 'add' fails to construct, also with exactly one of the dims zero, and
\* forward never reaches its unsupported-policy branch.
C2_Original ==
    /\ (Constructed /\ ~KnownCombine) => model.status = "failed"
    /\ (fwd.status # "none") => fwd.error # "NotImplementedError"

\* C2 amended: with both dims nonzero an unknown combine value fails the
\* construction; with exactly one dim zero combine is not looked at; forward
\* never reaches its unsupported-policy branch on a constructed model.
C2_UnknownCombine ==
    /\ (Constructed /\ ~KnownCombine /\ BothEncoders) => model.status = "failed"
    /\ (fwd.status # "none") => fwd.error # "NotImplementedError"

\* C2 witness: both encoders were built and the constructor raised
\* NotImplementedError on the combine value.
C2_Witness ==
    /\ model.status = "failed" /\ model.error = "NotImplementedError"
    /\ model.PhoneticTransformer.status = "ok" /\ model.SpeakerTransformer.status = "ok"
    /\ config.combine = "mul"

\* C3 as stated: on a constructed model code_dim is the feature width of the
\* fused code forward produces: the one encoder's out_dim when the other is
\* absent, the sum under 'concat', the common out_dim under 'add'.
C3_CodeDimIsFusedWidth ==
    /\ (model.status = "built" /\ model.speaker_dim = 0)
          => model.code_dim = model.PhoneticTransformer.out_dim
    /\ (model.status = "built" /\ model.phone_dim = 0)
          => model.code_dim = model.SpeakerTransformer.out_dim
    /\ (model.status = "built" /\ BothEncoders /\ model.combine = "concat")
          => model.code_dim = model.PhoneticTransformer.out_dim + model.SpeakerTransformer.out_dim
    /\ (model.status = "built" /\ BothEncoders /\ model.combine = "add")
          => /\ model.PhoneticTransformer.out_dim = model.SpeakerTransformer.out_dim
             /\ model.code_dim = model.PhoneticTransformer.out_dim
    /\ (fwd.status = "returned") => fwd.code.width = model.code_dim

\* C4 as stated: the fusion step is total on a constructed model: without a
\* speaker encoder the fused code is the phonetic code, and without a phonetic
\* encoder it is the speaker code and forward does not fail, pooling or not.
C4_FusionTotal ==
    (fwd.status # "none") =>
        /\ model.speaker_dim = 0 => (fwd.status = "returned" /\ fwd.code = fwd.phonetic_code)
        /\ (model.phone_dim = 0 /\ model.speaker_dim # 0)
              => (fwd.status = "returned" /\ fwd.code = fwd.speaker_out)

\* C5 as stated: the speaker encoder's constructor fails exactly on a
\* speaker_type outside {gst, linear, none}, and 'none' gives an encoder
\* without recognizer and with out_dim = hidden_size, whatever phone_type is.
C5_SpeakerTypeDecides ==
    (model.SpeakerTransformer.status # "absent") =>
        /\ (model.SpeakerTransformer.status = "NotImplementedError")
              <=> (config.speaker_type \notin {"gst", "linear", "none"})
        /\ (config.speaker_type = "none")
              => /\ model.SpeakerTransformer.status = "ok"
                 /\ ~model.SpeakerTransformer.with_recognizer
                 /\ model.SpeakerTransformer.out_dim = config.hidden_size

\* The loss over exactly the masked positions: sum of |pred - label| there,
\* over their number.
MaskedPositions(mask_label) == {i \in DOMAIN mask_label : mask_label[i]}

RECURSIVE SumOver(_, _, _)
SumOver(S, x, y) ==
    IF S = {} THEN 0
    ELSE LET i == CHOOSE j \in S : TRUE
         IN  Abs(x[i] - y[i]) + SumOver(S \ {i}, x, y)

LossAsClaimed(pred_spec, spec_label, mask_label) ==
    [num |-> SumOver(MaskedPositions(mask_label), pred_spec, spec_label),
     den |-> Cardinality(MaskedPositions(mask_label))]

LabelsSupplied == fwd.spec_label # <<>> /\ fwd.mask_label # <<>>

ObjectiveAsClaimed ==
    IF LabelsSupplied
    THEN IF MaskedPositions(fwd.mask_label) = {}
         THEN fwd.status = "failed" /\ fwd.error = "AssertionError"
         ELSE /\ fwd.status = "returned" /\ fwd.returns = "loss, pred_spec"
              /\ fwd.loss = LossAsClaimed(fwd.pred_spec, fwd.spec_label, fwd.mask_label)
    ELSE /\ fwd.status = "returned"
         /\ fwd.returns = IF model.output_attentions THEN "all_attentions, pred_spec"
                          ELSE "pred_spec, pred_state"

\* C6 as stated: a forward call with both labels fails on an empty mask and
\* otherwise returns the mean absolute difference over the masked positions;
\* without both labels it returns the predictions, with the attention traces
\* if they were requested and with the intermediate state otherwise.
C6_Objective == (fwd.status # "none") => ObjectiveAsClaimed

\* The objective as far as forward reaches it (the code had been fused).
ObjectiveWhenReached ==
    (fwd.status # "none" /\ fwd.code # NoneTensor) => ObjectiveAsClaimed

Suffix(key) == key[Len(key)]

WithSuffix(key, suffix) == [key EXCEPT ![Len(key)] = suffix]

\* The name the claim gives a checkpoint key.
ClaimedName(key) ==
    IF Suffix(key) = "gamma" THEN WithSuffix(key, "weight")
    ELSE IF Suffix(key) = "beta" THEN WithSuffix(key, "bias")
    ELSE key

\* C7 as stated: load_model assigns every checkpoint entry under its key with
\* a legacy suffix 'gamma' / 'beta' replaced by 'weight' / 'bias' and nothing
\* else of any key changed: the entry is in the renamed dict under that name,
\* and a target parameter of that name and shape holds its value.
C7_SuffixRenamed ==
    (ld.status \notin {"idle"}) =>
        \A i \in DOMAIN ld.state_dict :
            LET e == ld.state_dict[i]
                name == ClaimedName(e.key)
            IN  /\ DictHas(ld.renamed, name)
                /\ DictGet(ld.renamed, name).val = e.val
                /\ (name \in DOMAIN ld.target /\ ld.target[name].shape = e.shape)
                      => ld.params[name].val = e.val

\* C8 as stated: a load_model that raises has changed no parameter of the
\* target, and missing or unexpected names alone do not make it raise.
C8_NoPartialLoad ==
    (ld.status \notin {"idle"}) =>
        /\ ld.status = "RuntimeError" => ld.params = ld.target
        /\ (\A name \in DOMAIN ld.target :
               DictHas(ld.renamed, name) => DictGet(ld.renamed, name).shape = ld.target[name].shape)
              => ld.status = "ok"

IndexOf(log, event) == CHOOSE i \in DOMAIN log : log[i] = event

Logged(log, event) == \E i \in DOMAIN log : log[i] = event

LoadedFirst(enc) ==
    /\ Logged(model.log, "load " \o enc)
    /\ \A i \in DOMAIN model.log :
          model.log[i] \in {"init " \o enc, "init model"}
              => IndexOf(model.log, "load " \o enc) < i

\* The value load_model gives parameter p from the file torch.load was handed.
HoldsCheckpoint(enc, f) ==
    LET r == load_model(RawWeights, torch_load(f).Transformer)
    IN  \A p \in DOMAIN enc.weights :
           p \notin r.missing_keys => enc.weights[p].val = r.params[p].val

\* C9 as stated: with pre_train non-empty the checkpoint weights go into the
\* sub-encoders before any other weight initialization of them, and after
\* construction every loaded parameter still holds the checkpoint's value.
C9_LoadBeforeInit ==
    (model.status = "built" /\ config.pre_train # <<>>) =>
        /\ model.phone_dim # 0 =>
              /\ LoadedFirst("PhoneticTransformer")
              /\ HoldsCheckpoint(model.PhoneticTransformer, model.phonetic_states[1])
        /\ model.speaker_dim # 0 =>
              /\ LoadedFirst("SpeakerTransformer")
              /\ HoldsCheckpoint(model.SpeakerTransformer, model.speaker_states[1])

\* The weight handling of the constructor was reached.
WeightHandlingReached ==
    /\ config.pre_train # <<>>
    /\ model.status = "built" \/ model.error \in {"TorchLoadError", "RuntimeError"}

\* C10 as stated: a pre_train list of one path p loads both encoders from p,
\* the checkpoint reader being handed p itself; a list of two paths loads the
\* phonetic encoder from the first and the speaker encoder from the second;
\* an encoder that does not exist receives no weights.
C10_PreTrainPaths ==
    WeightHandlingReached =>
        LET pt == config.pre_train
            first == IF pt[1].isList THEN PyStr(pt[1].items[1]) ELSE pt[1]
            last == IF pt[1].isList THEN first ELSE pt[Len(pt)]
        IN  /\ model.torch_loads = <<first, last>>
            /\ model.phone_dim # 0 => model.phonetic_states = <<first>>
            /\ model.speaker_dim # 0 => model.speaker_states = <<last>>
            /\ model.phone_dim = 0 => model.phonetic_states = <<>>
            /\ model.speaker_dim = 0 => model.speaker_states = <<>>

====
